---- MODULE Spec2Model ----
(***************************************************************************)
(* Experiment orchestrator: the booking store (ExperimentRepository), the  *)
(* gap finder (RescheduleOrchestrator.find_safe_dates) and the rescheduler *)
(* (RescheduleOrchestrator.reschedule_experiment) with its conflict oracle *)
(* (ConflictAnalyzer.analyze_conflicts).                                   *)
(*                                                                         *)
(* Dates.  Every date string is of the year 2026 and is held as the text   *)
(* after "2026-", a sequence of characters: "2026-02-01" is                *)
(* <<"0","2","-","0","1">> and "2026-2-1" is <<"2","-","1">>.  A datetime  *)
(* is the ordinal of the day in 2026 (Jan 1 = 1).  strptime and strftime   *)
(* convert between the two with the calendar's month lengths; timedelta    *)
(* arithmetic is integer arithmetic on ordinals; strings compare as Python *)
(* compares them, character by character.                                  *)
(***************************************************************************)
EXTENDS Integers, Sequences, FiniteSets, TLC

VARIABLES
    store,            \* experiments.json: the sequence of stored records
    pc,               \* position of the running operation
    args,             \* arguments of the running operation
    existing,         \* find_safe_dates: the (filtered) obstacles
    current_date,     \* find_safe_dates: the sweep cursor (a datetime)
    available_slots,  \* find_safe_dates: slots emitted so far
    jumps,            \* find_safe_dates: the jumps taken: from, obstacle hit, to
    experiment,       \* reschedule_experiment: the in-memory booking
    conflict_check,   \* reschedule_experiment: what analyze_conflicts returned
    llm_calls,        \* model.generate_content calls of the running operation
    writes,           \* _write_all calls of the running operation
    store_at_call,    \* the store as it was when the running operation was called
    trace,            \* the calls the running operation has made, in order
    result,           \* what the finished operation returned
    file_kind         \* what json.load makes of experiments.json: a list or not

vars == <<store, pc, args, existing, current_date, available_slots, jumps,
          experiment, conflict_check, llm_calls, writes, store_at_call, trace,
          result, file_kind>>

None == "None"

(***************************************************************************)
(* Bounds                                                                  *)
(***************************************************************************)
BaseDay == 30        \* first start date a stored booking may have: 2026-01-30
NumDays == 3         \* stored bookings start on BaseDay .. BaseDay+NumDays-1
MaxDur == 3          \* find_safe_dates is asked for 1 .. MaxDur days
MaxStoredDur == 1    \* bookings are created and moved with up to MaxStoredDur days

Days == BaseDay..(BaseDay + NumDays - 1)

\* The bookings a store may hold: ids in storage order, each with its tags.
Ids == <<"e1", "e2">>
Names(id) == IF id = "e1" THEN "Hero banner" ELSE "Grid layout"
Surfaces(id) == {"homepage"}
Metrics(id) == IF id = "e1" THEN {"aov"} ELSE {"conversion_rate"}

(***************************************************************************)
(* datetime.strptime(s, "%Y-%m-%d"), strftime and timedelta                *)
(***************************************************************************)
DaysInMonth == <<31, 28, 31, 30, 31, 30, 31, 31, 30, 31, 30, 31>>

RECURSIVE DaysBefore(_)
DaysBefore(m) == IF m <= 1 THEN 0 ELSE DaysBefore(m - 1) + DaysInMonth[m - 1]

Digits == <<"0", "1", "2", "3", "4", "5", "6", "7", "8", "9">>

DigitValues == [c \in {Digits[i] : i \in 1..Len(Digits)} |->
                    (CHOOSE i \in 1..Len(Digits) : Digits[i] = c) - 1]

IsDigit(c) == c \in DOMAIN DigitValues

DigitValue(c) == DigitValues[c]

\* The order of characters by code point: "-" comes before every digit.
Ord(c) == IF c = "-" THEN 0 ELSE DigitValue(c) + 1

\* Python's a < b on strings.
RECURSIVE StrLess(_, _)
StrLess(a, b) ==
    IF b = <<>> THEN FALSE
    ELSE IF a = <<>> THEN TRUE
    ELSE IF Head(a) # Head(b) THEN Ord(Head(a)) < Ord(Head(b))
    ELSE StrLess(Tail(a), Tail(b))

\* Python's a <= b on strings.
StrLE(a, b) == a = b \/ StrLess(a, b)

\* "2026-13-01": a start date strptime rejects.
InvalidDate == <<"1", "3", "-", "0", "1">>

\* The fields of "%m-%d": the text before and after the first "-".
DashAt(s) ==
    IF \E i \in 1..Len(s) : s[i] = "-"
    THEN CHOOSE i \in 1..Len(s) : s[i] = "-" /\ \A j \in 1..(i - 1) : s[j] # "-"
    ELSE 0

MonthField(s) == SubSeq(s, 1, DashAt(s) - 1)

DayField(s) == SubSeq(s, DashAt(s) + 1, Len(s))

\* %m and %d match one or two digits.
IsNumberField(t) == Len(t) \in {1, 2} /\ \A i \in 1..Len(t) : IsDigit(t[i])

FieldValue(t) ==
    IF Len(t) = 1 THEN DigitValue(t[1]) ELSE 10 * DigitValue(t[1]) + DigitValue(t[2])

\* strptime(s, "%Y-%m-%d") does not raise ValueError.
IsDateString(s) ==
    /\ DashAt(s) # 0
    /\ IsNumberField(MonthField(s))
    /\ IsNumberField(DayField(s))
    /\ FieldValue(MonthField(s)) \in 1..12
    /\ FieldValue(DayField(s)) \in 1..DaysInMonth[FieldValue(MonthField(s))]

\* The day strptime(s, "%Y-%m-%d") returns for a string it accepts.
ParsedDay(s) == DaysBefore(FieldValue(MonthField(s))) + FieldValue(DayField(s))

RECURSIVE MonthDay(_, _)
MonthDay(n, m) ==
    IF n <= DaysInMonth[m] THEN <<m, n>> ELSE MonthDay(n - DaysInMonth[m], m + 1)

\* %m and %d print two digits.
TwoDigits(k) == <<Digits[(k \div 10) + 1], Digits[(k % 10) + 1]>>

\* What strftime("%Y-%m-%d") prints for day n.
FormattedDay(n) ==
    LET md == MonthDay(n, 1)
    IN  TwoDigits(md[1]) \o <<"-">> \o TwoDigits(md[2])

\* The same day typed without leading zeros, as in "2026-2-1".
NoLeadingZero(k) == IF k < 10 THEN <<Digits[k + 1]>> ELSE TwoDigits(k)

Unpadded(n) ==
    LET md == MonthDay(n, 1)
    IN  NoLeadingZero(md[1]) \o <<"-">> \o NoLeadingZero(md[2])

\* The two conversions, tabulated once for the days of the year and the two
\* spellings of each.
DaysOfYear == 1..DaysBefore(13)

strftimeTable == [n \in DaysOfYear |-> FormattedDay(n)]

strptimeTable ==
    [s \in {FormattedDay(n) : n \in DaysOfYear} \cup {Unpadded(n) : n \in DaysOfYear} |->
        ParsedDay(s)]

strptime(s) == IF s \in DOMAIN strptimeTable THEN strptimeTable[s] ELSE ParsedDay(s)

strftime(n) == IF n \in DaysOfYear THEN strftimeTable[n] ELSE FormattedDay(n)

\* Mutant: the end date is the start date, whatever the duration.
_calculate_end_date_IgnoresDuration(start_date, duration_days) ==
    strftime(strptime(start_date))

(***************************************************************************)
(* Experiment                                                              *)
(***************************************************************************)
_calculate_end_date(start_date, duration_days) ==
    strftime(strptime(start_date) + duration_days)

\* Python truthiness of an optional string: None and "" are falsy.
Truthy(x) == x # None /\ x # ""

\* datetime.now().isoformat() during this session, and the time stamp of a
\* record created in an earlier one.
Now == "now"
Earlier == "earlier"

\* Experiment.__init__: end_date is always computed from start_date and
\* duration_days; created_at is the one given, or the current time.
Experiment(id, name, surfaces, metrics, start_date, duration_days, calendar_event_id, status, created_at) ==
    [id |-> id, name |-> name, surfaces |-> surfaces, metrics |-> metrics,
     start_date |-> start_date, duration_days |-> duration_days,
     end_date |-> _calculate_end_date(start_date, duration_days),
     created_at |-> IF Truthy(created_at) THEN created_at ELSE Now,
     calendar_event_id |-> calendar_event_id, status |-> status]

\* Experiment.to_dict: the record written to disk, field by field.
to_dict(e) ==
    [id |-> e.id, name |-> e.name, surfaces |-> e.surfaces, metrics |-> e.metrics,
     start_date |-> e.start_date, duration_days |-> e.duration_days,
     end_date |-> e.end_date, created_at |-> e.created_at,
     calendar_event_id |-> e.calendar_event_id, status |-> e.status]

\* Mutant: from_dict does not pass the stored created_at on.
from_dict_NewTimestamp(d) ==
    Experiment(d.id, d.name, d.surfaces, d.metrics, d.start_date, d.duration_days,
               d.calendar_event_id, d.status, None)

\* Experiment.from_dict: the stored end_date is not read; the constructor
\* recomputes it.
from_dict(d) ==
    Experiment(d.id, d.name, d.surfaces, d.metrics, d.start_date, d.duration_days,
               d.calendar_event_id, d.status, d.created_at)

\* Python's None where an Experiment is expected.
NoExperiment ==
    [id |-> None, name |-> None, surfaces |-> {}, metrics |-> {},
     start_date |-> InvalidDate, duration_days |-> 0, end_date |-> InvalidDate,
     created_at |-> None, calendar_event_id |-> None, status |-> None]

(***************************************************************************)
(* ExperimentRepository                                                    *)
(***************************************************************************)
load_all == [i \in 1..Len(store) |-> from_dict(store[i])]

\* next((i for i, e in enumerate(...) if test), None) on the sequence of the
\* test's outcomes: the first index where it is true, 0 for None.
FirstIndex(hits) ==
    IF \E i \in 1..Len(hits) : hits[i]
    THEN CHOOSE i \in 1..Len(hits) : hits[i] /\ \A j \in 1..(i - 1) : ~hits[j]
    ELSE 0

\* Mutant: an id no stored experiment has yields the first stored experiment.
get_by_id_FirstOnMiss(exp_id) ==
    LET experiments == load_all
        i == FirstIndex([k \in 1..Len(experiments) |-> experiments[k].id = exp_id])
    IN  IF experiments = <<>> THEN NoExperiment
        ELSE IF i = 0 THEN experiments[1] ELSE experiments[i]

get_by_id(exp_id) ==
    LET experiments == load_all
        i == FirstIndex([k \in 1..Len(experiments) |-> experiments[k].id = exp_id])
    IN  IF i = 0 THEN NoExperiment ELSE experiments[i]

_write_all(experiments) == [i \in 1..Len(experiments) |-> to_dict(experiments[i])]

\* Mutant: save appends, whether or not the id is stored.
save_AlwaysAppends(e) == _write_all(Append(load_all, e))

\* Mutant: save writes the saved experiment alone.
save_KeepsOnlySaved(e) == _write_all(<<e>>)

\* ExperimentRepository.save: the new contents of the file.
save(e) ==
    LET experiments == load_all
        existing_idx == FirstIndex([k \in 1..Len(experiments) |-> experiments[k].id = e.id])
    IN  IF existing_idx # 0
        THEN _write_all([experiments EXCEPT ![existing_idx] = e])
        ELSE _write_all(Append(experiments, e))

\* ExperimentRepository.get_by_date_range: the dates are compared as the
\* strings they are.
get_by_date_range(start_date, end_date) ==
    SelectSeq(load_all, LAMBDA exp :
        StrLE(exp.start_date, end_date) /\ StrLE(start_date, exp.end_date))

\* ExperimentRepository.delete, lines 105-107: the experiments that stay.
delete_kept(exp_id) == SelectSeq(load_all, LAMBDA e : e.id # exp_id)

\* Mutant: delete reports a removal whatever the file holds.
delete_returns_AlwaysTrue(exp_id) == TRUE

\* ExperimentRepository.delete, lines 109-112: the value returned.
delete_returns(exp_id) == Len(delete_kept(exp_id)) < Len(load_all)

\* ExperimentRepository.delete: the new contents of the file; it is written
\* only when an experiment was removed.
delete(exp_id) ==
    IF delete_returns(exp_id) THEN _write_all(delete_kept(exp_id)) ELSE store

(***************************************************************************)
(* RescheduleOrchestrator.find_safe_dates                                  *)
(***************************************************************************)
\* Lines 62-70: the obstacles the sweep looks at.
FilterExisting(all, surface_id, metric_name) ==
    IF Truthy(surface_id) \/ Truthy(metric_name)
    THEN SelectSeq(all, LAMBDA e :
            /\ (surface_id = None \/ surface_id \in e.surfaces)
            /\ (metric_name = None \/ metric_name \in e.metrics))
    ELSE all

\* Line 88: the overlap test of the sweep, on datetimes.
SweepOverlap(cur, potential_end, exp) ==
    /\ cur <= strptime(exp.end_date)
    /\ potential_end >= strptime(exp.start_date)

\* Mutant: the scan looks at the first stored obstacle only.
FirstConflict_OnlyFirst(obstacles, cur, potential_end) ==
    IF obstacles # <<>> /\ SweepOverlap(cur, potential_end, obstacles[1])
    THEN 1 ELSE 0

\* Lines 83-92: index of the obstacle the for loop breaks on, 0 if it runs
\* to its end.
FirstConflict(obstacles, cur, potential_end) ==
    FirstIndex([k \in 1..Len(obstacles) |-> SweepOverlap(cur, potential_end, obstacles[k])])

\* Mutant: after a jump the candidate at the new cursor is emitted without
\* scanning the obstacles again.
SweepIteration_NoRescan(obstacles, duration_days, cur, slots) ==
    LET potential_end == cur + (duration_days - 1)
        k == FirstConflict(obstacles, cur, potential_end)
        jumped == IF k # 0 THEN strptime(obstacles[k].end_date) + 1 ELSE cur
        jumped_end == jumped + (duration_days - 1)
    IN  [current_date |-> jumped_end + 1,
         available_slots |-> Append(slots, <<strftime(jumped), strftime(jumped_end)>>),
         has_conflict |-> FALSE]

\* Mutant: after an emitted slot the cursor moves on by one day only.
SweepIteration_SlideByOne(obstacles, duration_days, cur, slots) ==
    LET potential_end == cur + (duration_days - 1)
        k == FirstConflict(obstacles, cur, potential_end)
    IN  IF k # 0
        THEN [current_date |-> strptime(obstacles[k].end_date) + 1,
              available_slots |-> slots,
              has_conflict |-> TRUE]
        ELSE [current_date |-> cur + 1,
              available_slots |-> Append(slots, <<strftime(cur), strftime(potential_end)>>),
              has_conflict |-> FALSE]

\* Mutant: the jump lands two days after the obstacle's end date.
SweepIteration_JumpPastByTwo(obstacles, duration_days, cur, slots) ==
    LET potential_end == cur + (duration_days - 1)
        k == FirstConflict(obstacles, cur, potential_end)
    IN  IF k # 0
        THEN [current_date |-> strptime(obstacles[k].end_date) + 2,
              available_slots |-> slots,
              has_conflict |-> TRUE]
        ELSE [current_date |-> potential_end + 1,
              available_slots |-> Append(slots, <<strftime(cur), strftime(potential_end)>>),
              has_conflict |-> FALSE]

\* Mutant: the jump lands on the obstacle's end date, not on the day after.
SweepIteration_JumpToEnd(obstacles, duration_days, cur, slots) ==
    LET potential_end == cur + (duration_days - 1)
        k == FirstConflict(obstacles, cur, potential_end)
    IN  IF k # 0
        THEN [current_date |-> strptime(obstacles[k].end_date),
              available_slots |-> slots,
              has_conflict |-> TRUE]
        ELSE [current_date |-> potential_end + 1,
              available_slots |-> Append(slots, <<strftime(cur), strftime(potential_end)>>),
              has_conflict |-> FALSE]

\* Lines 79-99: one iteration of the while loop, from cursor cur with the
\* slots found so far.
SweepIteration(obstacles, duration_days, cur, slots) ==
    LET potential_end == cur + (duration_days - 1)
        k == FirstConflict(obstacles, cur, potential_end)
    IN  IF k # 0
        THEN [current_date |-> strptime(obstacles[k].end_date) + 1,
              available_slots |-> slots,
              has_conflict |-> TRUE]
        ELSE [current_date |-> potential_end + 1,
              available_slots |-> Append(slots, <<strftime(cur), strftime(potential_end)>>),
              has_conflict |-> FALSE]

\* Lines 77-101: the while loop run to its end.
RECURSIVE Sweep(_, _, _, _, _)
Sweep(obstacles, duration_days, cur, end_date, slots) ==
    IF cur < end_date
    THEN LET next == SweepIteration(obstacles, duration_days, cur, slots)
         IN  Sweep(obstacles, duration_days, next.current_date, end_date,
                   next.available_slots)
    ELSE slots

\* Lines 33-101: find_safe_dates on the stored experiments all.
find_safe_dates(all, duration_days, start_search_date, end_search_date, surface_id, metric_name) ==
    Sweep(FilterExisting(all, surface_id, metric_name), duration_days,
          strptime(start_search_date), strptime(end_search_date), <<>>)

(***************************************************************************)
(* The state machine                                                       *)
(***************************************************************************)
NoArgs == [op |-> None]
NoCheck ==
    [has_conflicts |-> FALSE, source |-> None, problematic_experiments |-> {},
     analysis |-> "", recommendation |-> "", confidence |-> 0]
NoResult == [op |-> None]

\* A booking as schedule_experiment stores it: validated duration, a calendar
\* event, status "planned".
Booking(id, day, dur) ==
    to_dict(Experiment(id, Names(id), Surfaces(id), Metrics(id), strftime(day), dur,
                       id, "planned", Earlier))

Init ==
    /\ \E n \in 0..Len(Ids) :
         \E day \in [1..n -> Days], dur \in [1..n -> 1..MaxStoredDur] :
            store = [i \in 1..n |-> Booking(Ids[i], day[i], dur[i])]
    /\ pc = "idle"
    /\ args = NoArgs
    /\ existing = <<>>
    /\ current_date = 0
    /\ available_slots = <<>>
    /\ jumps = {}
    /\ experiment = NoExperiment
    /\ conflict_check = NoCheck
    /\ llm_calls = 0
    /\ writes = 0
    /\ store_at_call = store
    /\ trace = <<>>
    /\ result = NoResult
    /\ file_kind = "list"

\* No operation is running: the CLI is at its menu.
AtMenu == pc = "idle"

\* An operation has returned; the caller prints the result and goes back to
\* the menu. The operation's locals are gone.
BackToMenu ==
    /\ pc \in {"fsd_done", "rs_done", "se_done", "repo_done"}
    /\ pc' = "idle"
    /\ args' = NoArgs
    /\ existing' = <<>>
    /\ current_date' = 0
    /\ available_slots' = <<>>
    /\ jumps' = {}
    /\ experiment' = NoExperiment
    /\ conflict_check' = NoCheck
    /\ llm_calls' = 0
    /\ writes' = 0
    /\ result' = NoResult
    /\ store_at_call' = store
    /\ trace' = <<>>
    /\ UNCHANGED <<file_kind, store>>

\* find_safe_dates, lines 55-75: resolve the window, load and filter the
\* obstacles, put the cursor on the window's start.
FindSafeDatesCall(duration_days, start_search_date, end_search_date, surface_id, metric_name) ==
    /\ AtMenu
    /\ args' = [op |-> "find_safe_dates", duration_days |-> duration_days,
                start_search_date |-> start_search_date,
                end_search_date |-> end_search_date,
                surface_id |-> surface_id, metric_name |-> metric_name]
    /\ existing' = FilterExisting(load_all, surface_id, metric_name)
    /\ current_date' = strptime(start_search_date)
    /\ available_slots' = <<>>
    /\ jumps' = {}
    /\ pc' = "fsd_loop"
    /\ store_at_call' = store
    /\ trace' = <<"load_all">>
    /\ UNCHANGED <<file_kind, store, experiment, conflict_check, llm_calls, writes, result>>

\* find_safe_dates, lines 77-99: the loop condition holds, one iteration.
FindSafeDatesLoop ==
    /\ pc = "fsd_loop"
    /\ current_date < strptime(args.end_search_date)
    /\ LET next == SweepIteration(existing, args.duration_days, current_date,
                                  available_slots)
       IN  /\ current_date' = next.current_date
           /\ available_slots' = next.available_slots
           /\ jumps' = IF next.has_conflict
                       THEN jumps \cup
                            {[from |-> current_date,
                              obstacle |-> existing[FirstConflict(existing, current_date,
                                             current_date + (args.duration_days - 1))],
                              to |-> next.current_date]}
                       ELSE jumps
    /\ UNCHANGED <<file_kind, store, pc, args, existing, experiment, conflict_check,
                   llm_calls, writes, store_at_call, trace, result>>

\* Mutant: the loop also ends with the cursor on the day before search_end.
FindSafeDatesReturn_OneDayEarly ==
    /\ pc = "fsd_loop"
    /\ ~(current_date + 1 < strptime(args.end_search_date))
    /\ pc' = "fsd_done"
    /\ result' = [op |-> "find_safe_dates", slots |-> available_slots]
    /\ UNCHANGED <<file_kind, store, args, existing, current_date, available_slots, jumps,
                   experiment, conflict_check, llm_calls, writes, store_at_call, trace>>

\* find_safe_dates, lines 77 and 101: the loop condition fails, return.
FindSafeDatesReturn ==
    /\ pc = "fsd_loop"
    /\ ~(current_date < strptime(args.end_search_date))
    /\ pc' = "fsd_done"
    /\ result' = [op |-> "find_safe_dates", slots |-> available_slots]
    /\ UNCHANGED <<file_kind, store, args, existing, current_date, available_slots, jumps,
                   experiment, conflict_check, llm_calls, writes, store_at_call, trace>>

(***************************************************************************)
(* ConflictAnalyzer.analyze_conflicts                                      *)
(***************************************************************************)
\* Confidence values, in tenths.
FullConfidence == 10
FallbackConfidence == 3
DefaultConfidence == 5

\* What model.generate_content may do: raise, answer with text that has none
\* of the tagged lines the parser looks for, or answer with the tagged lines:
\* a [CONFLICT] verdict, the experiment names of its [INTERFERES_WITH] line, a
\* [REASON], a [RECOMMENDATION] and a [CONFIDENCE].
LLMReplies(existing_experiments) ==
    {[raises |-> TRUE, tagged |-> FALSE, conflict |-> FALSE, interferes |-> {},
      reason |-> "", recommendation |-> "", confidence |-> 0],
     [raises |-> FALSE, tagged |-> FALSE, conflict |-> FALSE, interferes |-> {},
      reason |-> "", recommendation |-> "", confidence |-> 0]} \cup
    [raises : {FALSE}, tagged : {TRUE}, conflict : BOOLEAN,
     interferes : SUBSET {existing_experiments[i].name :
                            i \in 1..Len(existing_experiments)},
     reason : {"llm_reason"}, recommendation : {"llm_recommendation"},
     confidence : {8}]

\* What the trace of calls keeps of a reply: that generate_content raised, or
\* that its text had none of the tagged lines.
ReplyMarks(reply) ==
    IF reply.raises THEN <<"exception">>
    ELSE IF ~reply.tagged THEN <<"no_tagged_line">>
    ELSE <<>>

\* _parse_gemini_response, lines 188-228: the defaults of lines 192-200,
\* overwritten by each tagged line found.
_parse_gemini_response(reply, existing_experiments) ==
    IF ~reply.tagged
    THEN [has_conflicts |-> FALSE, source |-> "llm", problematic_experiments |-> {},
          analysis |-> "", recommendation |-> "", confidence |-> DefaultConfidence]
    ELSE [has_conflicts |-> reply.conflict,
          source |-> "llm",
          problematic_experiments |->
             {existing_experiments[i].id : i \in
                 {j \in 1..Len(existing_experiments) :
                     existing_experiments[j].name \in reply.interferes}},
          analysis |-> reply.reason,
          recommendation |-> reply.recommendation,
          confidence |-> reply.confidence]

\* analyze_conflicts, lines 71-103, given what the LLM does if it is called.
analyze_conflicts(existing_experiments, reply) ==
    IF existing_experiments = <<>>
    THEN [has_conflicts |-> FALSE, source |-> "no_existing",
          problematic_experiments |-> {},
          analysis |-> "no_existing_experiments", recommendation |-> "safe_to_schedule",
          confidence |-> FullConfidence]
    ELSE IF reply.raises
    THEN [has_conflicts |-> FALSE, source |-> "fallback",
          problematic_experiments |-> {},
          analysis |-> "could_not_perform_ai_analysis",
          recommendation |-> "proceed_with_caution", confidence |-> FallbackConfidence]
    ELSE _parse_gemini_response(reply, existing_experiments)

(***************************************************************************)
(* RescheduleOrchestrator.reschedule_experiment                            *)
(***************************************************************************)
\* Mutant: the experiment being moved stays in the list.
OtherExperiments_IncludesSelf(experiment_id) == load_all

\* Line 137: all stored experiments except the one being moved.
OtherExperiments(experiment_id) ==
    SelectSeq(load_all, LAMBDA e : e.id # experiment_id)

\* The returned tuple (success, message, experiment): of the message, which
\* one it is and the analyzer's texts it quotes (lines 153-154 and 189-190).
RescheduleResult(success, message, exp) ==
    [op |-> "reschedule_experiment", success |-> success, message |-> message,
     analysis |-> IF message \in {"cannot_reschedule", "rescheduled"}
                  THEN conflict_check.analysis ELSE "",
     recommendation |-> IF message = "cannot_reschedule"
                        THEN conflict_check.recommendation ELSE "",
     experiment |-> exp]

\* Mutant: get_by_id hands out the stored object itself, so that the trial
\* dates assigned to it are the stored ones at once.
RescheduleCall_SharedObject(experiment_id, new_start_date, new_duration_days, calendar_service) ==
    /\ AtMenu
    /\ args' = [op |-> "reschedule_experiment", experiment_id |-> experiment_id,
                new_start_date |-> new_start_date,
                new_duration_days |-> new_duration_days,
                calendar_service |-> calendar_service,
                old_dates |-> <<get_by_id(experiment_id).start_date,
                               get_by_id(experiment_id).end_date>>]
    /\ LET found == get_by_id(experiment_id)
       IN  IF found = NoExperiment
           THEN /\ experiment' = NoExperiment
                /\ result' = RescheduleResult(FALSE, "not_found", NoExperiment)
                /\ pc' = "rs_done"
           ELSE IF ~IsDateString(new_start_date)
           THEN /\ experiment' = [found EXCEPT !.start_date = new_start_date,
                                               !.duration_days = new_duration_days]
                /\ result' = RescheduleResult(FALSE, "error", NoExperiment)
                /\ pc' = "rs_done"
           ELSE /\ experiment' =
                      [found EXCEPT !.start_date = new_start_date,
                                    !.duration_days = new_duration_days,
                                    !.end_date = _calculate_end_date(new_start_date,
                                                                     new_duration_days)]
                /\ result' = result
                /\ pc' = "rs_loaded"
    /\ store_at_call' = store
    /\ store' = [k \in 1..Len(store) |->
                    IF store[k].id = experiment_id THEN to_dict(experiment')
                                                   ELSE store[k]]
    /\ trace' = <<"get_by_id">>
    /\ UNCHANGED <<file_kind, existing, current_date, available_slots, jumps,
                   conflict_check, llm_calls, writes>>

\* Lines 123-133: look the booking up and put the new dates on the loaded
\* object. strptime raises on a malformed start date, inside
\* _calculate_end_date; the except clause of line 194 returns the error.
RescheduleCall(experiment_id, new_start_date, new_duration_days, calendar_service) ==
    /\ AtMenu
    /\ args' = [op |-> "reschedule_experiment", experiment_id |-> experiment_id,
                new_start_date |-> new_start_date,
                new_duration_days |-> new_duration_days,
                calendar_service |-> calendar_service,
                old_dates |-> <<get_by_id(experiment_id).start_date,
                               get_by_id(experiment_id).end_date>>]
    /\ LET found == get_by_id(experiment_id)
       IN  IF found = NoExperiment
           THEN /\ experiment' = NoExperiment
                /\ result' = RescheduleResult(FALSE, "not_found", NoExperiment)
                /\ pc' = "rs_done"
           ELSE IF ~IsDateString(new_start_date)
           THEN /\ experiment' = [found EXCEPT !.start_date = new_start_date,
                                               !.duration_days = new_duration_days]
                /\ result' = RescheduleResult(FALSE, "error", NoExperiment)
                /\ pc' = "rs_done"
           ELSE /\ experiment' =
                      [found EXCEPT !.start_date = new_start_date,
                                    !.duration_days = new_duration_days,
                                    !.end_date = _calculate_end_date(new_start_date,
                                                                     new_duration_days)]
                /\ result' = result
                /\ pc' = "rs_loaded"
    /\ store_at_call' = store
    /\ trace' = <<"get_by_id">>
    /\ UNCHANGED <<file_kind, store, existing, current_date, available_slots, jumps,
                   conflict_check, llm_calls, writes>>

\* Mutant: the trial dates are saved before the analyzer is asked.
RescheduleAnalyze_SavesFirst ==
    /\ pc = "rs_loaded"
    /\ LET other_experiments == OtherExperiments(args.experiment_id)
       IN  \E reply \in LLMReplies(other_experiments) :
            /\ conflict_check' = analyze_conflicts(other_experiments, reply)
            /\ llm_calls' = IF other_experiments = <<>> THEN llm_calls
                                                         ELSE llm_calls + 1
            /\ trace' = trace \o <<"save", "load_all", "analyze_conflicts">> \o
                           (IF other_experiments = <<>> THEN <<>>
                            ELSE <<"generate_content">> \o ReplyMarks(reply))
    /\ store' = save(experiment)
    /\ writes' = writes + 1
    /\ pc' = "rs_checked"
    /\ UNCHANGED <<file_kind, args, existing, current_date, available_slots, jumps,
                   experiment, store_at_call, result>>

\* Mutant: while the analyzer is asked, another sequence saves a booking.
RescheduleAnalyze_Interleaved ==
    /\ pc = "rs_loaded"
    /\ LET other_experiments == OtherExperiments(args.experiment_id)
       IN  \E reply \in LLMReplies(other_experiments) :
            /\ conflict_check' = analyze_conflicts(other_experiments, reply)
            /\ llm_calls' = IF other_experiments = <<>> THEN llm_calls
                                                         ELSE llm_calls + 1
            /\ trace' = trace \o <<"load_all", "analyze_conflicts">> \o
                           (IF other_experiments = <<>> THEN <<>>
                            ELSE <<"generate_content">> \o ReplyMarks(reply))
    /\ \E day \in Days : store' = save(from_dict(Booking(args.experiment_id, day, 1)))
    /\ pc' = "rs_checked"
    /\ UNCHANGED <<file_kind, args, existing, current_date, available_slots, jumps,
                   experiment, writes, store_at_call, result>>

\* Lines 136-143: load the other experiments and ask the analyzer. The LLM
\* is called exactly when the list handed over is not empty.
RescheduleAnalyze ==
    /\ pc = "rs_loaded"
    /\ LET other_experiments == OtherExperiments(args.experiment_id)
       IN  \E reply \in LLMReplies(other_experiments) :
            /\ conflict_check' = analyze_conflicts(other_experiments, reply)
            /\ llm_calls' = IF other_experiments = <<>> THEN llm_calls
                                                         ELSE llm_calls + 1
            /\ trace' = trace \o <<"load_all", "analyze_conflicts">> \o
                           (IF other_experiments = <<>> THEN <<>>
                            ELSE <<"generate_content">> \o ReplyMarks(reply))
    /\ pc' = "rs_checked"
    /\ UNCHANGED <<file_kind, store, args, existing, current_date, available_slots, jumps,
                   experiment, writes, store_at_call, result>>

\* Mutant: the rejected trial is written to the store before the revert.
RescheduleReject_Persists ==
    /\ pc = "rs_checked"
    /\ conflict_check.has_conflicts
    /\ store' = save(experiment)
    /\ experiment' = [experiment EXCEPT
            !.start_date = args.old_dates[1],
            !.end_date = args.old_dates[2],
            !.duration_days = strptime(args.old_dates[2]) - strptime(args.old_dates[1])]
    /\ result' = RescheduleResult(FALSE, "cannot_reschedule", NoExperiment)
    /\ pc' = "rs_done"
    /\ trace' = Append(trace, "save")
    /\ UNCHANGED <<file_kind, args, existing, current_date, available_slots, jumps,
                   conflict_check, llm_calls, writes, store_at_call>>

\* Lines 145-155: conflict. The loaded object gets its old dates back and
\* the failure is returned; nothing is written.
RescheduleReject ==
    /\ pc = "rs_checked"
    /\ conflict_check.has_conflicts
    /\ experiment' = [experiment EXCEPT
            !.start_date = args.old_dates[1],
            !.end_date = args.old_dates[2],
            !.duration_days = strptime(args.old_dates[2]) - strptime(args.old_dates[1])]
    /\ result' = RescheduleResult(FALSE, "cannot_reschedule", NoExperiment)
    /\ pc' = "rs_done"
    /\ UNCHANGED <<file_kind, store, args, existing, current_date, available_slots, jumps,
                   conflict_check, llm_calls, writes, store_at_call, trace>>

\* Mutant: with no conflict reported, a move onto the dates of another stored
\* experiment is refused all the same.
RescheduleSave_RejectsOverlap ==
    /\ pc = "rs_checked"
    /\ ~conflict_check.has_conflicts
    /\ LET clash == \E i \in 1..Len(store) :
                       /\ store[i].id # experiment.id
                       /\ strptime(experiment.start_date) <= strptime(store[i].end_date)
                       /\ strptime(experiment.end_date) >= strptime(store[i].start_date)
       IN  IF clash
           THEN /\ store' = store
                /\ writes' = writes
                /\ trace' = trace
                /\ pc' = "rs_done"
                /\ result' = RescheduleResult(FALSE, "cannot_reschedule", NoExperiment)
           ELSE /\ store' = save(experiment)
                /\ writes' = writes + 1
                /\ trace' = Append(trace, "save")
                /\ IF Truthy(args.calendar_service) /\ Truthy(experiment.calendar_event_id)
                   THEN pc' = "rs_calendar" /\ result' = result
                   ELSE pc' = "rs_done" /\
                        result' = RescheduleResult(TRUE, "rescheduled", experiment)
    /\ UNCHANGED <<file_kind, args, existing, current_date, available_slots, jumps,
                   experiment, conflict_check, llm_calls, store_at_call>>

\* Lines 157-161 and 186-192: no conflict. Save, then either go on to the
\* calendar or return success.
RescheduleSave ==
    /\ pc = "rs_checked"
    /\ ~conflict_check.has_conflicts
    /\ store' = save(experiment)
    /\ writes' = writes + 1
    /\ trace' = Append(trace, "save")
    /\ IF Truthy(args.calendar_service) /\ Truthy(experiment.calendar_event_id)
       THEN pc' = "rs_calendar" /\ result' = result
       ELSE pc' = "rs_done" /\ result' = RescheduleResult(TRUE, "rescheduled", experiment)
    /\ file_kind' = "list"
    /\ UNCHANGED <<args, existing, current_date, available_slots, jumps,
                   experiment, conflict_check, llm_calls, store_at_call>>

\* Mutant: a failed calendar update puts the old booking back in the store
\* and the call returns the failure.
RescheduleCalendar_RollsBack(update_ok) ==
    /\ pc = "rs_calendar"
    /\ result' = IF update_ok
                 THEN RescheduleResult(TRUE, "rescheduled", experiment)
                 ELSE RescheduleResult(FALSE, "calendar_update_failed", NoExperiment)
    /\ store' = IF update_ok THEN store ELSE store_at_call
    /\ pc' = "rs_done"
    /\ trace' = trace \o (IF update_ok THEN <<"events_update">>
                                       ELSE <<"events_update", "exception">>)
    /\ UNCHANGED <<file_kind, args, existing, current_date, available_slots, jumps,
                   experiment, conflict_check, llm_calls, writes, store_at_call>>

\* Lines 162-192: the calendar update succeeds or raises; either way the
\* call returns success.
RescheduleCalendar(update_ok) ==
    /\ pc = "rs_calendar"
    /\ result' = RescheduleResult(TRUE,
                    IF update_ok THEN "rescheduled" ELSE "calendar_update_failed",
                    experiment)
    /\ pc' = "rs_done"
    /\ trace' = trace \o (IF update_ok THEN <<"events_update">>
                                       ELSE <<"events_update", "exception">>)
    /\ UNCHANGED <<file_kind, store, args, existing, current_date, available_slots, jumps,
                   experiment, conflict_check, llm_calls, writes, store_at_call>>

(***************************************************************************)
(* ExperimentOrchestratorAgent.schedule_experiment                         *)
(***************************************************************************)
\* product_config: the keys of SURFACES, SCREENS and METRICS.
SURFACES == {"homepage", "product_page", "checkout", "email"}

SCREENS ==
    {"hero_section", "product_grid", "navigation", "product_info", "reviews_section",
     "add_to_cart_button", "cart_summary", "shipping_options", "payment_form",
     "confirmation", "welcome_series", "promotional", "post_purchase"}

METRICS ==
    {"click_through_rate", "conversion_rate", "aov", "cart_abandonment", "bounce_rate",
     "pageviews", "open_rate", "email_click_rate", "reviews_helpful"}

\* Mutant: the duration is not looked at.
_validate_inputs_SkipsDuration(name, surfaces, screens, metrics, start_date, duration_days) ==
    IF name \in {"", " "} THEN "name_empty"
    ELSE IF surfaces = {} THEN "no_surface"
    ELSE IF \E x \in surfaces : x \notin SURFACES THEN "unknown_surface"
    ELSE IF \E x \in screens : x # "" /\ x \notin SCREENS THEN "unknown_screen"
    ELSE IF \E x \in metrics : x \notin METRICS THEN "unknown_metric"
    ELSE IF ~IsDateString(start_date) THEN "invalid_date_format"
    ELSE None

\* _validate_inputs, lines 128-159: the error, None when the inputs pass.
_validate_inputs(name, surfaces, screens, metrics, start_date, duration_days) ==
    IF name \in {"", " "} THEN "name_empty"
    ELSE IF surfaces = {} THEN "no_surface"
    ELSE IF \E x \in surfaces : x \notin SURFACES THEN "unknown_surface"
    ELSE IF \E x \in screens : x # "" /\ x \notin SCREENS THEN "unknown_screen"
    ELSE IF \E x \in metrics : x \notin METRICS THEN "unknown_metric"
    ELSE IF ~IsDateString(start_date) THEN "invalid_date_format"
    ELSE IF duration_days <= 0 THEN "invalid_duration"
    ELSE None

\* The returned tuple (success, message, experiment): of the message, which
\* one it is and what it quotes of the conflict check (lines 109-110 and
\* 205-208).
ScheduleResult(success, message, exp) ==
    [op |-> "schedule_experiment", success |-> success, message |-> message,
     analysis |-> IF message \in {"cannot_schedule", "scheduled"}
                  THEN conflict_check.analysis ELSE "",
     recommendation |-> IF message = "cannot_schedule"
                        THEN conflict_check.recommendation ELSE "",
     confidence |-> IF message = "cannot_schedule" THEN conflict_check.confidence ELSE 0,
     experiment |-> exp]

\* Experiment._generate_id, lines 64-69: an id no stored experiment has.
NewId ==
    LET free == {i \in 1..Len(Ids) : \A k \in 1..Len(store) : store[k].id # Ids[i]}
    IN  IF free = {} THEN None ELSE Ids[CHOOSE i \in free : \A j \in free : i <= j]

\* Lines 72-90: validate the inputs and build the Experiment object.
ScheduleCall(name, surfaces, screens, metrics, start_date, duration_days) ==
    /\ AtMenu
    /\ Len(store) < Len(Ids)
    /\ args' = [op |-> "schedule_experiment", name |-> name, surfaces |-> surfaces,
                screens |-> screens, metrics |-> metrics, start_date |-> start_date,
                duration_days |-> duration_days]
    /\ LET validation_error == _validate_inputs(name, surfaces, screens, metrics,
                                                start_date, duration_days)
       IN  IF validation_error # None
           THEN /\ experiment' = NoExperiment
                /\ result' = ScheduleResult(FALSE, validation_error, NoExperiment)
                /\ pc' = "se_done"
           ELSE /\ experiment' = Experiment(NewId, name, surfaces, metrics, start_date,
                                            duration_days, None, "planned", None)
                /\ result' = result
                /\ pc' = "se_created"
    /\ trace' = <<"_validate_inputs">>
    /\ store_at_call' = store
    /\ UNCHANGED <<file_kind, store, existing, current_date, available_slots, jumps,
                   conflict_check, llm_calls, writes>>

\* _check_conflicts, lines 161-185: the stored experiments get_by_date_range
\* returns go to the analyzer; with none, the analyzer is not called.
ScheduleCheck ==
    /\ pc = "se_created"
    /\ LET overlapping == get_by_date_range(experiment.start_date, experiment.end_date)
       IN  IF overlapping = <<>>
           THEN /\ conflict_check' =
                      [has_conflicts |-> FALSE, source |-> "no_overlap",
                       problematic_experiments |-> {}, analysis |-> "",
                       recommendation |-> "", confidence |-> FullConfidence]
                /\ llm_calls' = llm_calls
                /\ trace' = Append(trace, "get_by_date_range")
           ELSE \E reply \in LLMReplies(overlapping) :
                /\ conflict_check' = analyze_conflicts(overlapping, reply)
                /\ llm_calls' = llm_calls + 1
                /\ trace' = trace \o <<"get_by_date_range", "analyze_conflicts",
                                        "generate_content">> \o ReplyMarks(reply)
    /\ pc' = "se_checked"
    /\ UNCHANGED <<file_kind, store, args, existing, current_date, available_slots, jumps,
                   experiment, writes, store_at_call, result>>

\* Mutant: on a conflict the calendar event is created and the experiment
\* saved before the failure is returned.
ScheduleReject_StoresAnyway ==
    /\ pc = "se_checked"
    /\ conflict_check.has_conflicts
    /\ store' = save([experiment EXCEPT !.calendar_event_id = experiment.id])
    /\ writes' = writes + 1
    /\ trace' = trace \o <<"create_calendar_event", "save">>
    /\ result' = ScheduleResult(FALSE, "cannot_schedule", NoExperiment)
    /\ pc' = "se_done"
    /\ UNCHANGED <<file_kind, args, existing, current_date, available_slots, jumps,
                   experiment, conflict_check, llm_calls, store_at_call>>

\* Lines 95-97: conflict, the call returns the failure.
ScheduleReject ==
    /\ pc = "se_checked"
    /\ conflict_check.has_conflicts
    /\ result' = ScheduleResult(FALSE, "cannot_schedule", NoExperiment)
    /\ pc' = "se_done"
    /\ UNCHANGED <<file_kind, store, args, existing, current_date, available_slots, jumps,
                   experiment, conflict_check, llm_calls, writes, store_at_call, trace>>

\* Mutant: when the event cannot be created the experiment is saved without
\* an event id.
ScheduleCalendar_SavesOnFailure(created) ==
    /\ pc = "se_checked"
    /\ ~conflict_check.has_conflicts
    /\ trace' = Append(trace, "create_calendar_event")
    /\ experiment' = IF created
                     THEN [experiment EXCEPT !.calendar_event_id = experiment.id]
                     ELSE experiment
    /\ result' = result
    /\ pc' = "se_event"
    /\ UNCHANGED <<file_kind, store, args, existing, current_date, available_slots, jumps,
                   conflict_check, llm_calls, writes, store_at_call>>

\* Lines 99-101 and 114-115: no conflict, _create_calendar_event. It returns
\* the event's id, or raises and the except clause returns the error.
ScheduleCalendar(created) ==
    /\ pc = "se_checked"
    /\ ~conflict_check.has_conflicts
    /\ trace' = Append(trace, "create_calendar_event")
    /\ IF created
       THEN /\ experiment' = [experiment EXCEPT !.calendar_event_id = experiment.id]
            /\ result' = result
            /\ pc' = "se_event"
       ELSE /\ experiment' = experiment
            /\ result' = ScheduleResult(FALSE, "error", NoExperiment)
            /\ pc' = "se_done"
    /\ UNCHANGED <<file_kind, store, args, existing, current_date, available_slots, jumps,
                   conflict_check, llm_calls, writes, store_at_call>>

\* Lines 103-112: save the experiment and return success.
ScheduleSave ==
    /\ pc = "se_event"
    /\ store' = save(experiment)
    /\ writes' = writes + 1
    /\ trace' = Append(trace, "save")
    /\ result' = ScheduleResult(TRUE, "scheduled", experiment)
    /\ pc' = "se_done"
    /\ file_kind' = "list"
    /\ UNCHANGED <<args, existing, current_date, available_slots, jumps,
                   experiment, conflict_check, llm_calls, store_at_call>>

(***************************************************************************)
(* ExperimentRepository called directly                                    *)
(***************************************************************************)
\* repo.delete(exp_id), lines 103-112.
DeleteCall(exp_id) ==
    /\ AtMenu
    /\ args' = [op |-> "delete", exp_id |-> exp_id]
    /\ store' = delete(exp_id)
    /\ writes' = IF delete_returns(exp_id) THEN writes + 1 ELSE writes
    /\ trace' = <<"load_all">> \o (IF delete_returns(exp_id) THEN <<"_write_all">>
                                                             ELSE <<>>)
    /\ result' = [op |-> "delete", returned |-> delete_returns(exp_id)]
    /\ pc' = "repo_done"
    /\ store_at_call' = store
    /\ file_kind' = IF delete_returns(exp_id) THEN "list" ELSE file_kind
    /\ UNCHANGED <<existing, current_date, available_slots, jumps, experiment,
                   conflict_check, llm_calls>>

\* repo.save(e), lines 41-61, with an Experiment object the caller holds.
SaveCall(e) ==
    /\ AtMenu
    /\ args' = [op |-> "save", experiment |-> e]
    /\ store' = save(e)
    /\ writes' = writes + 1
    /\ trace' = <<"load_all", "_write_all">>
    /\ result' = [op |-> "save", returned |-> None]
    /\ pc' = "repo_done"
    /\ store_at_call' = store
    /\ file_kind' = "list"
    /\ UNCHANGED <<existing, current_date, available_slots, jumps, experiment,
                   conflict_check, llm_calls>>

\* The Experiment objects a caller hands to repo.save: a booking of one of the
\* experiments, loaded earlier or built anew.
SavedExperiments ==
    {from_dict(Booking(Ids[i], day, dur)) : i \in 1..Len(Ids), day \in Days,
                                           dur \in 1..MaxStoredDur}

\* The arguments a caller passes to schedule_experiment for the experiment
\* that gets id: its own name and tags, or the same with one of them wrong.
ScheduleTags(id) ==
    LET ok == [name |-> Names(id), surfaces |-> Surfaces(id), screens |-> {},
               metrics |-> Metrics(id)]
    IN  {ok,
         [ok EXCEPT !.name = ""],
         [ok EXCEPT !.name = " "],
         [ok EXCEPT !.surfaces = {}],
         [ok EXCEPT !.surfaces = {"sidebar"}],
         [ok EXCEPT !.screens = {"footer"}],
         [ok EXCEPT !.metrics = {"revenue"}]}

\* The arguments a caller passes to reschedule_experiment.
RescheduleIds == {Ids[i] : i \in 1..Len(Ids)} \cup {"missing"}
NewStartDates == {strftime(d) : d \in Days} \cup {InvalidDate}
NewDurations == (0 - 1)..MaxStoredDur
CalendarServices == {None, "service"}

\* Start dates for schedule_experiment: the same, and the first of a month
\* typed without leading zeros.
ScheduleStartDates ==
    NewStartDates \cup {Unpadded(d) : d \in {x \in Days : MonthDay(x, 1)[2] = 1}}

\* The arguments a caller passes to find_safe_dates.
SearchDates == {strftime(d) : d \in BaseDay..(BaseDay + NumDays + 1)}
SurfaceArgs == {None, "", "homepage"}
MetricArgs == {None, "aov"}

Next ==
    \/ /\ AtMenu
       /\ \E d \in 1..MaxDur, s \in SearchDates, e \in SearchDates,
             sf \in SurfaceArgs, m \in MetricArgs :
               FindSafeDatesCall(d, s, e, sf, m)
    \/ FindSafeDatesLoop
    \/ FindSafeDatesReturn
    \/ /\ AtMenu
       /\ \E id \in RescheduleIds, s \in NewStartDates, d \in NewDurations,
             c \in CalendarServices :
               RescheduleCall(id, s, d, c)
    \/ RescheduleAnalyze
    \/ RescheduleReject
    \/ RescheduleSave
    \/ \E ok \in BOOLEAN : RescheduleCalendar(ok)
    \/ /\ AtMenu
       /\ \E t \in ScheduleTags(NewId), s \in ScheduleStartDates, d \in NewDurations :
               ScheduleCall(t.name, t.surfaces, t.screens, t.metrics, s, d)
    \/ ScheduleCheck
    \/ ScheduleReject
    \/ \E created \in BOOLEAN : ScheduleCalendar(created)
    \/ ScheduleSave
    \/ BackToMenu

Spec == Init /\ [][Next]_vars

\* find_safe_dates runs synchronously: once called, its loop keeps iterating
\* and returns when the loop condition fails.
FairSpec ==
    /\ Spec
    /\ WF_vars(FindSafeDatesLoop)
    /\ WF_vars(FindSafeDatesReturn)

\* The gap finder alone, on the stores schedule_experiment leaves: calls of
\* find_safe_dates from the menu, each run to its return.
SweepNext ==
    \/ /\ AtMenu
       /\ \E d \in 1..MaxDur, s \in SearchDates, e \in SearchDates,
             sf \in SurfaceArgs, m \in MetricArgs :
               FindSafeDatesCall(d, s, e, sf, m)
    \/ FindSafeDatesLoop
    \/ FindSafeDatesReturn
    \/ BackToMenu

SweepSpec ==
    /\ Init
    /\ [][SweepNext]_vars
    /\ WF_vars(FindSafeDatesLoop)
    /\ WF_vars(FindSafeDatesReturn)

\* The operations that write the store, with the repository's save and
\* delete called directly as well: no caller of delete is part of the
\* program, and save is otherwise reached through the two operations only.
RepoNext ==
    \/ /\ AtMenu
       /\ \E id \in RescheduleIds, s \in NewStartDates, d \in NewDurations,
             c \in CalendarServices :
               RescheduleCall(id, s, d, c)
    \/ RescheduleAnalyze
    \/ RescheduleReject
    \/ RescheduleSave
    \/ \E ok \in BOOLEAN : RescheduleCalendar(ok)
    \/ /\ AtMenu
       /\ \E t \in ScheduleTags(NewId), s \in ScheduleStartDates, d \in NewDurations :
               ScheduleCall(t.name, t.surfaces, t.screens, t.metrics, s, d)
    \/ ScheduleCheck
    \/ ScheduleReject
    \/ \E created \in BOOLEAN : ScheduleCalendar(created)
    \/ ScheduleSave
    \/ /\ AtMenu
       /\ \E id \in RescheduleIds : DeleteCall(id)
    \/ /\ AtMenu
       /\ \E e \in SavedExperiments : SaveCall(e)
    \/ BackToMenu

RepoSpec == Init /\ [][RepoNext]_vars

\* find_safe_dates as find_safe_dates_menu calls it: int(input()) is passed
\* on unchecked, so the duration is any integer; there is no filter. The
\* window's end, today + 90 days in the code, is one of the search dates.
MenuDurations == (0 - 1)..MaxDur

\* The list of slots grows without limit when the loop does not end; the
\* model follows it up to MaxSlots slots, more than any window here has days.
MaxSlots == NumDays + 3

MenuLoop == Len(available_slots) < MaxSlots /\ FindSafeDatesLoop

MenuNext ==
    \/ /\ AtMenu
       /\ \E d \in MenuDurations, s \in SearchDates, e \in SearchDates :
               FindSafeDatesCall(d, s, e, None, None)
    \/ MenuLoop
    \/ FindSafeDatesReturn
    \/ BackToMenu

MenuSpec ==
    /\ Init
    /\ [][MenuNext]_vars
    /\ WF_vars(MenuLoop)
    /\ WF_vars(FindSafeDatesReturn)

(***************************************************************************)
(* A data file that is not what _write_all wrote                           *)
(***************************************************************************)
\* from_dict, lines 97-114, and Experiment.__init__, line 58: an Experiment
\* is built from a record whose start_date strptime accepts; a record without
\* the field gives None to strptime.
RecordLoads(d) == "start_date" \in DOMAIN d /\ IsDateString(d.start_date)

\* load_all, lines 31-39: a missing file and a JSONDecodeError give the empty
\* list; what json.load returns is iterated and handed to from_dict, and the
\* TypeError, AttributeError or ValueError raised there is not caught.
load_all_raises ==
    \/ file_kind = "not_iterable"
    \/ file_kind = "list" /\ \E i \in 1..Len(store) : ~RecordLoads(store[i])

\* What a repository method gives its caller: the exception of load_all, or
\* the value computed from the loaded list.
RepositoryResult(op, returned) ==
    IF load_all_raises THEN [op |-> op, raised |-> TRUE]
    ELSE [op |-> op, raised |-> FALSE, returned |-> returned]

\* repo.load_all(), repo.get_by_id(exp_id) and repo.get_by_date_range(start,
\* end) called directly: none of them has a try of its own around load_all.
LoadAllCall ==
    /\ AtMenu
    /\ args' = [op |-> "load_all"]
    /\ result' = RepositoryResult("load_all", IF load_all_raises THEN <<>> ELSE load_all)
    /\ pc' = "repo_done"
    /\ store_at_call' = store
    /\ trace' = <<"load_all">>
    /\ UNCHANGED <<file_kind, store, existing, current_date, available_slots, jumps,
                   experiment, conflict_check, llm_calls, writes>>

GetByIdCall(exp_id) ==
    /\ AtMenu
    /\ args' = [op |-> "get_by_id", exp_id |-> exp_id]
    /\ result' = RepositoryResult("get_by_id",
                       IF load_all_raises THEN NoExperiment ELSE get_by_id(exp_id))
    /\ pc' = "repo_done"
    /\ store_at_call' = store
    /\ trace' = <<"load_all">>
    /\ UNCHANGED <<file_kind, store, existing, current_date, available_slots, jumps,
                   experiment, conflict_check, llm_calls, writes>>

GetByDateRangeCall(start_date, end_date) ==
    /\ AtMenu
    /\ args' = [op |-> "get_by_date_range", start_date |-> start_date,
                end_date |-> end_date]
    /\ result' = RepositoryResult("get_by_date_range",
                       IF load_all_raises THEN <<>>
                       ELSE get_by_date_range(start_date, end_date))
    /\ pc' = "repo_done"
    /\ store_at_call' = store
    /\ trace' = <<"load_all">>
    /\ UNCHANGED <<file_kind, store, existing, current_date, available_slots, jumps,
                   experiment, conflict_check, llm_calls, writes>>

\* find_safe_dates, line 62, when load_all raises: there is no try in
\* find_safe_dates, the exception leaves it.
FindSafeDatesRaises(duration_days, start_search_date, end_search_date) ==
    /\ AtMenu
    /\ load_all_raises
    /\ args' = [op |-> "find_safe_dates", duration_days |-> duration_days,
                start_search_date |-> start_search_date,
                end_search_date |-> end_search_date,
                surface_id |-> None, metric_name |-> None]
    /\ result' = [op |-> "find_safe_dates", raised |-> TRUE]
    /\ pc' = "fsd_done"
    /\ store_at_call' = store
    /\ trace' = <<"load_all">>
    /\ UNCHANGED <<file_kind, store, existing, current_date, available_slots, jumps,
                   experiment, conflict_check, llm_calls, writes>>

\* schedule_experiment, lines 92-93 and 114-115, when load_all raises inside
\* get_by_date_range: the except clause turns the exception into the error
\* return.
ScheduleCheckRaises ==
    /\ pc = "se_created"
    /\ load_all_raises
    /\ result' = ScheduleResult(FALSE, "error", NoExperiment)
    /\ trace' = Append(trace, "get_by_date_range")
    /\ pc' = "se_done"
    /\ UNCHANGED <<file_kind, store, args, existing, current_date, available_slots, jumps,
                   experiment, conflict_check, llm_calls, writes, store_at_call>>

\* A stored record with a field missing, and one with a date strptime rejects.
WithoutStartDate(d) == [f \in DOMAIN d \ {"start_date"} |-> d[f]]
WithBadDate(d) == [d EXCEPT !.start_date = InvalidDate]

\* What experiments.json may hold when it was edited by hand or damaged: no
\* file, text that is not JSON, a JSON value that is no list, a list with a
\* damaged record in it; and the lists _write_all writes.
LoadInit ==
    /\ \/ /\ file_kind \in {"missing", "unparseable", "not_iterable"}
          /\ store = <<>>
       \/ /\ file_kind = "list"
          /\ \E n \in 0..Len(Ids) :
               \E day \in [1..n -> Days], dur \in [1..n -> 1..MaxStoredDur] :
                 LET written == [i \in 1..n |-> Booking(Ids[i], day[i], dur[i])]
                 IN  \/ store = written
                     \/ n >= 1 /\ store = [written EXCEPT ![n] = WithoutStartDate(written[n])]
                     \/ n >= 1 /\ store = [written EXCEPT ![n] = WithBadDate(written[n])]
    /\ pc = "idle"
    /\ args = NoArgs
    /\ existing = <<>>
    /\ current_date = 0
    /\ available_slots = <<>>
    /\ jumps = {}
    /\ experiment = NoExperiment
    /\ conflict_check = NoCheck
    /\ llm_calls = 0
    /\ writes = 0
    /\ store_at_call = store
    /\ trace = <<>>
    /\ result = NoResult

\* The readers of the data file: the three repository queries, the gap finder
\* without filters and schedule_experiment.
LoadNext ==
    \/ LoadAllCall
    \/ /\ AtMenu
       /\ \E id \in RescheduleIds : GetByIdCall(id)
    \/ /\ AtMenu
       /\ \E s \in SearchDates, e \in SearchDates : GetByDateRangeCall(s, e)
    \/ /\ AtMenu
       /\ ~load_all_raises
       /\ \E d \in 1..MaxDur, s \in SearchDates, e \in SearchDates :
               FindSafeDatesCall(d, s, e, None, None)
    \/ /\ AtMenu
       /\ \E d \in 1..MaxDur, s \in SearchDates, e \in SearchDates :
               FindSafeDatesRaises(d, s, e)
    \/ FindSafeDatesLoop
    \/ FindSafeDatesReturn
    \/ /\ AtMenu
       /\ \E t \in ScheduleTags(NewId), s \in ScheduleStartDates, d \in NewDurations :
               ScheduleCall(t.name, t.surfaces, t.screens, t.metrics, s, d)
    \/ ~load_all_raises /\ ScheduleCheck
    \/ ScheduleCheckRaises
    \/ ScheduleReject
    \/ \E created \in BOOLEAN : ScheduleCalendar(created)
    \/ ScheduleSave
    \/ BackToMenu

LoadSpec == LoadInit /\ [][LoadNext]_vars

\* find_safe_dates is in its loop or has returned: the sweep's locals are live.
InSweep == pc \in {"fsd_loop", "fsd_done"}

(***************************************************************************)
(* Properties                                                              *)
(***************************************************************************)
\* The closed overlap predicate on days: [s1, e1] and [s2, e2] overlap.
Overlaps(s1, e1, s2, e2) == s1 <= e2 /\ e1 >= s2

SlotOverlaps(slot, b) ==
    Overlaps(strptime(slot[1]), strptime(slot[2]),
             strptime(b.start_date), strptime(b.end_date))

\* The candidate of duration d at cursor c overlaps obstacle b.
CandidateOverlaps(c, d, b) ==
    Overlaps(c, c + d - 1, strptime(b.start_date), strptime(b.end_date))

\* C1 (Gap Finder soundness): no slot find_safe_dates has emitted overlaps,
\* under the closed predicate, any booking of the filtered obstacle set,
\* whatever the storage order of the obstacles.
C1_Soundness ==
    InSweep =>
        \A i \in 1..Len(available_slots) : \A j \in 1..Len(existing) :
            ~SlotOverlaps(available_slots[i], existing[j])

\* A call has returned a slot after a jump taken at a cursor whose candidate
\* overlapped two obstacles, the one found first ending before the other.
C1_Witness ==
    /\ pc = "fsd_done"
    /\ result.slots # <<>>
    /\ \E jp \in jumps : \E i, j \in 1..Len(existing) :
          /\ i < j
          /\ CandidateOverlaps(jp.from, args.duration_days, existing[i])
          /\ CandidateOverlaps(jp.from, args.duration_days, existing[j])
          /\ existing[i] = jp.obstacle
          /\ strptime(existing[j].end_date) > strptime(existing[i].end_date)

\* C2 (Gap Finder containment), as claimed: every returned slot lies inside
\* the search window, search_start <= start and end <= search_end.
C2_Containment ==
    pc = "fsd_done" =>
        \A i \in 1..Len(result.slots) :
            /\ strptime(args.start_search_date) <= strptime(result.slots[i][1])
            /\ strptime(result.slots[i][2]) <= strptime(args.end_search_date)

\* C3 (Reschedule atomicity): when reschedule_experiment returns the conflict
\* rejection, the persisted store is what it was when the call was made: the
\* targeted booking has all its original fields and no other booking changed.
C3_RejectLeavesStore ==
    (pc = "rs_done" /\ result.message = "cannot_reschedule") =>
        /\ store = store_at_call
        /\ get_by_id(args.experiment_id).start_date = args.old_dates[1]
        /\ get_by_id(args.experiment_id).end_date = args.old_dates[2]

\* A rejected move that asked for dates other than the booking's own.
C3_Witness ==
    /\ pc = "rs_done"
    /\ result.message = "cannot_reschedule"
    /\ conflict_check.has_conflicts
    /\ args.new_start_date # args.old_dates[1]
    /\ Len(store) = 2

\* The other bookings whose stored interval overlaps the interval the call
\* asks for, under the closed predicate.
OverlappingOthers ==
    SelectSeq(OtherExperiments(args.experiment_id), LAMBDA e :
        Overlaps(strptime(experiment.start_date), strptime(experiment.end_date),
                 strptime(e.start_date), strptime(e.end_date)))

\* C4, as claimed: the oracle is consulted only with the other bookings that
\* overlap the new interval, and not at all when there is none.
C4_OracleOnlyOnOverlap ==
    (pc = "rs_checked" /\ args.new_duration_days >= 1) =>
        /\ llm_calls > 0 => OtherExperiments(args.experiment_id) = OverlappingOthers
        /\ OverlappingOthers = <<>> => llm_calls = 0

\* C5, as claimed: a successful call leaves the requested interval in the
\* store, and the call succeeds whenever the overlap set was empty or the
\* oracle reported no conflict.
C5_RescheduleSuccess ==
    (pc = "rs_done" /\ args.new_duration_days >= 1) =>
        /\ result.success =>
              LET b == get_by_id(args.experiment_id)
              IN  /\ b.start_date = args.new_start_date
                  /\ b.duration_days = args.new_duration_days
                  /\ strptime(b.end_date) =
                        strptime(args.new_start_date) + args.new_duration_days
        /\ result.message = "cannot_reschedule" =>
              /\ conflict_check.has_conflicts
              /\ \E i \in 1..Len(store_at_call) :
                    /\ store_at_call[i].id # args.experiment_id
                    /\ Overlaps(strptime(args.new_start_date),
                                strptime(args.new_start_date) + args.new_duration_days,
                                strptime(store_at_call[i].start_date),
                                strptime(from_dict(store_at_call[i]).end_date))

\* The sweep of the specification: on a conflict the cursor moves to the day
\* after the latest end among all obstacles that overlap the candidate.
Latest(S) == CHOOSE x \in S : \A y \in S : y <= x

RECURSIVE ReferenceSweep(_, _, _, _, _)
ReferenceSweep(obstacles, d, cursor, search_end, gaps) ==
    IF ~(cursor < search_end) THEN gaps
    ELSE LET over == {i \in 1..Len(obstacles) : CandidateOverlaps(cursor, d, obstacles[i])}
         IN  IF over = {}
             THEN ReferenceSweep(obstacles, d, cursor + d, search_end,
                                 Append(gaps, <<strftime(cursor), strftime(cursor + d - 1)>>))
             ELSE ReferenceSweep(obstacles, d,
                                 Latest({strptime(obstacles[i].end_date) : i \in over}) + 1,
                                 search_end, gaps)

\* C6: the list find_safe_dates returns is, slot for slot and in order, the
\* list of the reference sweep that jumps past the latest overlapping end.
C6_SweepEqualsReference ==
    pc = "fsd_done" =>
        result.slots = ReferenceSweep(existing, args.duration_days,
                                      strptime(args.start_search_date),
                                      strptime(args.end_search_date), <<>>)

\* A returned, non-empty list after a jump where the two sweeps part: the
\* obstacle found first was not the overlapping one with the latest end.
C6_Witness ==
    /\ pc = "fsd_done"
    /\ result.slots # <<>>
    /\ \E jp \in jumps : \E j \in 1..Len(existing) :
          /\ CandidateOverlaps(jp.from, args.duration_days, existing[j])
          /\ strptime(existing[j].end_date) > strptime(jp.obstacle.end_date)

\* C7 (Gap Finder monotonicity): each slot starts strictly after the end of
\* the slot before it, so starts strictly increase and no two slots overlap.
C7_Monotonic ==
    InSweep =>
        \A i \in 1..(Len(available_slots) - 1) :
            /\ strptime(available_slots[i + 1][1]) > strptime(available_slots[i][2])
            /\ strptime(available_slots[i + 1][1]) > strptime(available_slots[i][1])
            /\ ~Overlaps(strptime(available_slots[i][1]), strptime(available_slots[i][2]),
                         strptime(available_slots[i + 1][1]),
                         strptime(available_slots[i + 1][2]))

\* A call that returned at least two slots of more than one day each.
C7_Witness ==
    /\ pc = "fsd_done"
    /\ Len(result.slots) >= 2
    /\ args.duration_days >= 2

\* C8 (Gap Finder termination): every iteration of the sweep loop moves the
\* cursor strictly forward, on the emit branch and on the jump branch, and a
\* call that entered the loop returns, with the cursor at or past search_end.
C8_Termination ==
    /\ [][(pc = "fsd_loop" /\ pc' = "fsd_loop") => current_date' > current_date]_vars
    /\ [](pc = "fsd_done" => current_date >= strptime(args.end_search_date))
    /\ (pc = "fsd_loop" ~> pc = "fsd_done")

\* A call returned after its loop took both branches.
C8_Witness ==
    /\ pc = "fsd_done"
    /\ jumps # {}
    /\ available_slots # <<>>
    /\ current_date >= strptime(args.end_search_date)

\* Every jump went to the day after the end of an obstacle the candidate
\* overlapped, and no slot starts from the jump's cursor up to that end.
JumpsPastInclusiveEnd ==
    \A jp \in jumps :
        /\ CandidateOverlaps(jp.from, args.duration_days, jp.obstacle)
        /\ jp.to = strptime(jp.obstacle.end_date) + 1
        /\ \A i \in 1..Len(available_slots) :
              ~(/\ jp.from <= strptime(available_slots[i][1])
                /\ strptime(available_slots[i][1]) <= strptime(jp.obstacle.end_date))

\* Obstacle A ends inside or after the window's start, obstacle B starts
\* after the duration_days days that follow A's end, and no obstacle
\* overlaps those days.
FreeRunAfter(A, B) ==
    LET a_end == strptime(A.end_date)
        d == args.duration_days
    IN  /\ strptime(A.start_date) <= a_end
        /\ strptime(args.start_search_date) <= a_end
        /\ strptime(B.start_date) > a_end + d
        /\ \A k \in 1..Len(existing) : ~CandidateOverlaps(a_end + 1, d, existing[k])

\* The returned list holds the slot that starts the day after A ends, and
\* holds it before every slot that starts after B.
SlotRightAfter(A, B) ==
    LET a_end == strptime(A.end_date)
        d == args.duration_days
    IN  \E i \in 1..Len(result.slots) :
            /\ result.slots[i] = <<strftime(a_end + 1), strftime(a_end + d)>>
            /\ \A j \in 1..Len(result.slots) :
                  strptime(result.slots[j][1]) > strptime(B.end_date) => i < j

\* C9, as claimed: the jump goes to the day after the inclusive obstacle end,
\* and with search_start <= A.end and duration_days free days between A and
\* B the result holds the slot [A.end + 1, A.end + duration_days].
C9_JumpPastEnd_AsClaimed ==
    /\ InSweep => JumpsPastInclusiveEnd
    /\ pc = "fsd_done" =>
          \A a, b \in 1..Len(existing) :
              FreeRunAfter(existing[a], existing[b]) =>
                  SlotRightAfter(existing[a], existing[b])

\* C9, amended: the same, for a window that reaches past the day after A's
\* end, A.end + 1 < search_end.
C9_JumpPastEnd ==
    /\ InSweep => JumpsPastInclusiveEnd
    /\ pc = "fsd_done" =>
          \A a, b \in 1..Len(existing) :
              (/\ FreeRunAfter(existing[a], existing[b])
               /\ strptime(existing[a].end_date) + 1 < strptime(args.end_search_date)) =>
                  SlotRightAfter(existing[a], existing[b])

\* A call returned the slot right after A, having jumped past A, with B
\* further on.
C9_Witness ==
    /\ pc = "fsd_done"
    /\ \E a, b \in 1..Len(existing) :
          /\ FreeRunAfter(existing[a], existing[b])
          /\ strptime(existing[a].end_date) + 1 < strptime(args.end_search_date)
          /\ SlotRightAfter(existing[a], existing[b])
          /\ \E jp \in jumps : jp.obstacle = existing[a]

\* A booking matches the filter of the running call: it carries the surface,
\* if one is given, and the metric, if one is given.
Matches(b) ==
    /\ Truthy(args.surface_id) => args.surface_id \in b.surfaces
    /\ Truthy(args.metric_name) => args.metric_name \in b.metrics

\* C10, as claimed: a filtered call returns what an unfiltered call returns
\* on a store that holds only the matching bookings.
C10_FilterTransparency ==
    pc = "fsd_done" =>
        result.slots =
            find_safe_dates(SelectSeq(load_all, Matches), args.duration_days,
                            args.start_search_date, args.end_search_date, None, None)

(***************************************************************************)
(* reschedule_experiment and schedule_experiment: outcomes                 *)
(***************************************************************************)
\* The calls the running operation has made so far.
Called == {trace[i] : i \in 1..Len(trace)}

\* The ids of the experiments stored when the running operation was called.
IdsAtCall == {store_at_call[i].id : i \in 1..Len(store_at_call)}

\* C11 (Reschedule NotFound): when reschedule_experiment returns for an id no
\* stored experiment has, it returns the not-found failure, it has called
\* neither the analyzer nor the calendar nor save, and the store is as it was.
C11_NotFound ==
    (/\ pc = "rs_done"
     /\ args.experiment_id \notin IdsAtCall) =>
        /\ ~result.success
        /\ result.message = "not_found"
        /\ Called \cap {"analyze_conflicts", "generate_content", "events_update",
                         "save"} = {}
        /\ llm_calls = 0
        /\ writes = 0
        /\ store = store_at_call

\* A call for an unknown id has returned, with experiments stored and a
\* calendar service handed in.
C11_Witness ==
    /\ pc = "rs_done"
    /\ args.experiment_id \notin IdsAtCall
    /\ Len(store_at_call) = 2
    /\ args.calendar_service # None
    /\ result.message = "not_found"

\* The analyzer has answered the running operation, and reported no conflict.
NoConflictReported == conflict_check.source # None /\ ~conflict_check.has_conflicts

\* The interval on the experiment being moved or created overlaps, as calendar
\* dates under the closed predicate, a booking another experiment had in the
\* store when the operation was called.
OverlapsStored ==
    \E i \in 1..Len(store_at_call) :
        /\ store_at_call[i].id # experiment.id
        /\ Overlaps(strptime(experiment.start_date), strptime(experiment.end_date),
                    strptime(store_at_call[i].start_date),
                    strptime(store_at_call[i].end_date))

\* The store holds the experiment of the running operation as it now is.
Committed == \E i \in 1..Len(store) : store[i] = to_dict(experiment)

\* The operation returned a rejection only on a conflict the LLM reported.
RejectedOnlyByOracle ==
    (/\ pc \in {"rs_done", "se_done"}
     /\ result.message \in {"cannot_reschedule", "cannot_schedule"}) =>
        /\ conflict_check.has_conflicts
        /\ conflict_check.source = "llm"

\* C12, as claimed: with a date overlap and no conflict reported, the move or
\* the new experiment is committed to the store.
C12_OracleAuthoritative_AsClaimed ==
    /\ (/\ pc \in {"rs_done", "se_done"}
        /\ NoConflictReported
        /\ OverlapsStored) => (result.success /\ Committed)
    /\ RejectedOnlyByOracle

\* C12 (The oracle is authoritative), amended: with a date overlap and no
\* conflict reported, a move is committed to the store, and a new experiment
\* is committed unless its calendar event could not be created, in which case
\* the call returns the error and the store is as it was; a rejection is
\* returned only when the LLM reported a conflict.
C12_OracleAuthoritative ==
    /\ (/\ pc = "rs_done"
        /\ NoConflictReported
        /\ OverlapsStored) => (result.success /\ Committed)
    /\ (/\ pc = "se_done"
        /\ NoConflictReported
        /\ OverlapsStored) =>
            \/ result.success /\ Committed
            \/ /\ result.message = "error"
               /\ trace[Len(trace)] = "create_calendar_event"
               /\ store = store_at_call
    /\ RejectedOnlyByOracle

\* A new experiment was stored on dates that overlap a stored booking, the
\* LLM having reported no conflict.
C12_Witness ==
    /\ pc = "se_done"
    /\ result.success
    /\ conflict_check.source = "llm"
    /\ ~conflict_check.has_conflicts
    /\ OverlapsStored
    /\ Committed
    /\ Len(store) = Len(store_at_call) + 1

\* The positions of call c in the trace of the running operation.
CallsOf(c) == {i \in 1..Len(trace) : trace[i] = c}

\* A reschedule_experiment call is running or has just returned.
InReschedule == pc \in {"rs_loaded", "rs_checked", "rs_calendar", "rs_done"}

\* C13 (Single commit after the decision): within one call of
\* reschedule_experiment the store is saved at most once; a save comes after
\* the analyzer's answer, and that answer was no conflict; the store differs
\* from the store at the call only after that save; and a call that returns
\* the rejection, not-found or the error has saved nothing.
C13_SingleCommit ==
    InReschedule =>
        /\ writes <= 1
        /\ Cardinality(CallsOf("save")) = writes
        /\ \A k \in CallsOf("save") :
              /\ \E j \in CallsOf("analyze_conflicts") : j < k
              /\ NoConflictReported
        /\ store # store_at_call => writes = 1
        /\ (/\ pc = "rs_done"
            /\ result.message \in {"cannot_reschedule", "not_found", "error"}) =>
               /\ writes = 0
               /\ store = store_at_call

\* A move to other dates was saved once, after the LLM had been asked and
\* had reported no conflict.
C13_Witness ==
    /\ pc = "rs_done"
    /\ result.success
    /\ writes = 1
    /\ store # store_at_call
    /\ conflict_check.source = "llm"
    /\ "events_update" \in Called

\* The ids of stored experiments the returned tuple carries: its third
\* element is the experiment of a successful call, None otherwise, and the
\* message quotes the analyzer's analysis and recommendation only.
ResultIds == IF result.experiment = NoExperiment THEN {} ELSE {result.experiment.id}

\* The rejected move asked for dates that overlap stored booking b, and the
\* analyzer's answer names b.
RejectedNaming(b) ==
    /\ b.id # args.experiment_id
    /\ Overlaps(strptime(args.new_start_date),
                strptime(_calculate_end_date(args.new_start_date, args.new_duration_days)),
                strptime(b.start_date), strptime(b.end_date))
    /\ b.id \in conflict_check.problematic_experiments

\* C14, as claimed: the result of a rejected move carries the id of the
\* overlapped booking the oracle named, with the oracle's reason and
\* recommendation.
C14_RejectionCarriesIds ==
    (/\ pc = "rs_done"
     /\ args.new_duration_days >= 1
     /\ result.message = "cannot_reschedule") =>
        \A i \in 1..Len(store) :
            RejectedNaming(store[i]) =>
                /\ store[i].id \in ResultIds
                /\ result.analysis = conflict_check.analysis
                /\ result.recommendation = conflict_check.recommendation

\* The terminal outcomes of reschedule_experiment. Committed: success is
\* returned and the store holds the booking on the requested interval.
TerminalCommitted ==
    /\ result.success
    /\ LET b == get_by_id(args.experiment_id)
       IN  /\ b # NoExperiment
           /\ b.start_date = args.new_start_date
           /\ b.duration_days = args.new_duration_days
           /\ strptime(b.end_date) = strptime(args.new_start_date) + args.new_duration_days

\* Rejected: the analyzer reported a conflict, the failure is returned and
\* the store is as it was.
TerminalRejected ==
    /\ ~result.success
    /\ result.message = "cannot_reschedule"
    /\ conflict_check.has_conflicts
    /\ store = store_at_call

\* NotFound: the id is not in the store and the failure is returned.
TerminalNotFound ==
    /\ ~result.success
    /\ result.message = "not_found"
    /\ args.experiment_id \notin IdsAtCall
    /\ store = store_at_call

\* Error: the new start date is not a date; the failure is returned, the
\* analyzer was not asked and the store is as it was.
TerminalError ==
    /\ ~result.success
    /\ result.message = "error"
    /\ args.experiment_id \in IdsAtCall
    /\ ~IsDateString(args.new_start_date)
    /\ conflict_check = NoCheck
    /\ store = store_at_call

\* How many of the outcomes in the sequence hold.
HowMany(outcomes) == Cardinality({k \in 1..Len(outcomes) : outcomes[k]})

CalendarUpdateFailed ==
    \E k \in CallsOf("events_update") :
        /\ k < Len(trace)
        /\ trace[k + 1] = "exception"
        /\ \E j \in CallsOf("save") : j < k

\* C16 (Calendar partial success): when the calendar update has failed after
\* the save of a reschedule, the call returns success with the message that
\* the calendar update failed, and the store holds the booking on the new
\* interval, written once.
C16_CalendarPartialSuccess ==
    (pc = "rs_done" /\ CalendarUpdateFailed) =>
        /\ result.success
        /\ result.message = "calendar_update_failed"
        /\ result.experiment = experiment
        /\ writes = 1
        /\ LET b == get_by_id(args.experiment_id)
           IN  /\ b.start_date = args.new_start_date
               /\ b.duration_days = args.new_duration_days
               /\ strptime(b.end_date) =
                     strptime(args.new_start_date) + args.new_duration_days

\* A move to other dates was saved and its calendar update failed.
C16_Witness ==
    /\ pc = "rs_done"
    /\ CalendarUpdateFailed
    /\ result.message = "calendar_update_failed"
    /\ store # store_at_call
    /\ args.new_duration_days >= 1

\* The LLM call of the running operation raised, or answered with text that
\* has no tagged line to parse a verdict from.
OracleUnavailable ==
    \E k \in CallsOf("generate_content") :
        /\ k < Len(trace)
        /\ trace[k + 1] \in {"exception", "no_tagged_line"}

\* C17, as claimed: when the LLM call raised or its answer could not be
\* parsed, analyze_conflicts has returned no conflict with a confidence not
\* above the parser's default and with a reason, and the operation goes on:
\* a move is committed, a new experiment goes on to its calendar event and is
\* not rejected.
C17_OracleDegrades ==
    OracleUnavailable =>
        /\ ~conflict_check.has_conflicts
        /\ conflict_check.confidence <= DefaultConfidence
        /\ conflict_check.analysis # ""
        /\ pc = "rs_done" => (result.success /\ Committed)
        /\ pc = "se_done" => (/\ "create_calendar_event" \in Called
                              /\ result.message \in {"scheduled", "error"})

(***************************************************************************)
(* get_by_date_range and the overlap predicate                             *)
(***************************************************************************)
\* The stored bookings whose interval overlaps [start_date, end_date] as
\* calendar dates under the closed predicate, in storage order.
OverlappingByDate(start_date, end_date) ==
    SelectSeq(load_all, LAMBDA b :
        /\ strptime(b.start_date) <= strptime(end_date)
        /\ strptime(b.end_date) >= strptime(start_date))

\* C18, as claimed: the query schedule_experiment makes for the dates of the
\* new experiment returns exactly the stored bookings that start on or
\* before the query's last day and end on or after its first day, in storage
\* order, a booking that shares only a boundary day included.
C18_DateRange ==
    pc = "se_created" =>
        get_by_date_range(experiment.start_date, experiment.end_date) =
            OverlappingByDate(experiment.start_date, experiment.end_date)

\* Booking a is among what get_by_date_range returns for the dates of b.
RangeOverlaps(a, b) ==
    \E k \in 1..Len(get_by_date_range(b.start_date, b.end_date)) :
        get_by_date_range(b.start_date, b.end_date)[k] = a

\* The sweep's test of line 88 for the interval of a against booking b.
SweepOverlaps(a, b) == SweepOverlap(strptime(a.start_date), strptime(a.end_date), b)

\* The stored bookings whose interval has start <= end.
StoredIntervals ==
    {load_all[i] : i \in {k \in 1..Len(store) :
        strptime(load_all[k].start_date) <= strptime(load_all[k].end_date)}}

\* C19, as claimed: on the stored intervals with start <= end, the overlap
\* test of get_by_date_range and the one of the sweep are symmetric and
\* reflexive.
C19_OverlapRelation ==
    \A a \in StoredIntervals :
        /\ RangeOverlaps(a, a)
        /\ SweepOverlaps(a, a)
        /\ \A b \in StoredIntervals :
              /\ RangeOverlaps(a, b) = RangeOverlaps(b, a)
              /\ SweepOverlaps(a, b) = SweepOverlaps(b, a)

(***************************************************************************)
(* schedule_experiment: lifecycle                                          *)
(***************************************************************************)
\* A schedule_experiment call is running or has just returned.
InSchedule == pc \in {"se_created", "se_checked", "se_event", "se_done"}

\* What _validate_inputs says of the arguments of the running call.
ValidationOfArgs ==
    _validate_inputs(args.name, args.surfaces, args.screens, args.metrics,
                     args.start_date, args.duration_days)

\* C20 (Creation lifecycle): within one call of schedule_experiment a save
\* comes only after _validate_inputs has passed the arguments and the
\* conflict check has returned no conflict, and the store changes by that
\* save only; when validation fails or a conflict is reported, the call
\* returns the failure, the store is as it was and create_calendar_event
\* has not been called.
C20_CreationLifecycle ==
    InSchedule =>
        /\ \A k \in CallsOf("save") :
              /\ trace[1] = "_validate_inputs"
              /\ ValidationOfArgs = None
              /\ \E j \in CallsOf("get_by_date_range") : j < k
              /\ NoConflictReported
        /\ store # store_at_call =>
              /\ Cardinality(CallsOf("save")) = 1
              /\ store = Append(store_at_call, to_dict(experiment))
        /\ (/\ pc = "se_done"
            /\ ValidationOfArgs # None \/ conflict_check.has_conflicts) =>
               /\ ~result.success
               /\ store = store_at_call
               /\ writes = 0
               /\ Called \cap {"create_calendar_event", "save"} = {}

\* A call was rejected on a conflict the LLM reported, with a booking stored.
C20_Witness ==
    /\ pc = "se_done"
    /\ ValidationOfArgs = None
    /\ conflict_check.has_conflicts
    /\ result.message = "cannot_schedule"
    /\ Len(store) = 1

(***************************************************************************)
(* Validation                                                              *)
(***************************************************************************)
\* The date string has the form YYYY-MM-DD: it is a date, written as
\* strftime writes it, month and day with two digits.
IsYmdForm(s) == IsDateString(s) /\ s = strftime(strptime(s))

\* The arguments of the running schedule_experiment call have one of the
\* faults other than the date's: empty name, no surface, an unknown surface,
\* screen or metric, a duration of zero or less.
ScheduleArgsFaulty ==
    \/ args.name = ""
    \/ args.surfaces = {}
    \/ args.surfaces \ SURFACES # {}
    \/ args.screens \ (SCREENS \cup {""}) # {}
    \/ args.metrics \ METRICS # {}
    \/ args.duration_days <= 0

\* The messages _validate_inputs returns.
ValidationMessages ==
    {"name_empty", "no_surface", "unknown_surface", "unknown_screen", "unknown_metric",
     "invalid_date_format", "invalid_duration"}

\* The running schedule_experiment call has returned a validation failure,
\* having asked the analyzer nothing, created no calendar event and written
\* nothing.
ValidationFailureReturned ==
    /\ pc = "se_done"
    /\ ~result.success
    /\ result.message \in ValidationMessages
    /\ trace = <<"_validate_inputs">>
    /\ llm_calls = 0
    /\ writes = 0
    /\ store = store_at_call

FailureSurfaced == "success" \in DOMAIN result /\ ~result.success

\* C22, as claimed: find_safe_dates with a duration of zero or less or with a
\* window that starts after its end, and reschedule_experiment of a stored
\* experiment with a duration of zero or less, return a failure; no slot is
\* produced, the analyzer is not asked and the store is not written.
C22_CoreValidation ==
    /\ (/\ pc = "fsd_done"
        /\ \/ args.duration_days <= 0
           \/ strptime(args.start_search_date) > strptime(args.end_search_date)) =>
            /\ FailureSurfaced
            /\ result.slots = <<>>
    /\ (/\ pc = "rs_done"
        /\ args.experiment_id \in IdsAtCall
        /\ IsDateString(args.new_start_date)
        /\ args.new_duration_days <= 0) =>
            /\ FailureSurfaced
            /\ result.message \notin {"cannot_reschedule"}
            /\ llm_calls = 0
            /\ writes = 0
            /\ store = store_at_call

\* ---------------------------------------------------------------------------
\* Store invariants
\* ---------------------------------------------------------------------------

\* C23, as claimed: every stored booking lasts at least one day and ends
\* duration_days after it starts.
C23_IntervalInvariant ==
    \A i \in 1..Len(store) :
        /\ store[i].duration_days >= 1
        /\ strptime(store[i].end_date) =
               strptime(store[i].start_date) + store[i].duration_days

\* C24 (Id uniqueness): the stored experiments have pairwise distinct ids.
C24_IdUniqueness ==
    \A i \in 1..Len(store) : \A j \in 1..Len(store) :
        store[i].id = store[j].id => i = j

\* save has replaced the second of two stored experiments.
C24_Witness ==
    /\ pc = "repo_done"
    /\ args.op = "save"
    /\ Len(store_at_call) = 2
    /\ Len(store) = 2
    /\ args.experiment.id = store_at_call[2].id
    /\ store[2] # store_at_call[2]

\* The stored experiments, as load_all returned them when the running
\* operation started.
LoadedAtCall == [i \in 1..Len(store_at_call) |-> from_dict(store_at_call[i])]

\* The experiments of a list whose id is not the given one, in their order.
Others(experiments, id) == SelectSeq(experiments, LAMBDA e : e.id # id)

\* C25 (Upsert): when repo.save(b) has returned, load_all holds exactly one
\* experiment with b's id and it equals b; the experiments stored under other
\* ids are the same, in the same order; there is one more record iff b's id
\* was not stored.
C25_Upsert ==
    (pc = "repo_done" /\ args.op = "save") =>
        LET b == args.experiment
        IN  /\ Cardinality({i \in 1..Len(load_all) : load_all[i].id = b.id}) = 1
            /\ \A i \in 1..Len(load_all) : load_all[i].id = b.id => load_all[i] = b
            /\ Others(load_all, b.id) = Others(LoadedAtCall, b.id)
            /\ Len(store) = Len(store_at_call) + (IF b.id \in IdsAtCall THEN 0 ELSE 1)

\* save has replaced the first of two stored experiments by a different
\* booking and left the second one in its place.
C25_Witness ==
    /\ pc = "repo_done"
    /\ args.op = "save"
    /\ Len(store_at_call) = 2
    /\ args.experiment.id = store_at_call[1].id
    /\ store[1] # store_at_call[1]
    /\ store[2] = store_at_call[2]

\* C26 (Delete): delete of an id that is not stored returns False and writes
\* nothing; delete of a stored id returns True, removes the records with that
\* id and no other, and get_by_id then finds nothing.
C26_Delete ==
    (pc = "repo_done" /\ args.op = "delete") =>
        IF args.exp_id \in IdsAtCall
        THEN /\ result.returned = TRUE
             /\ load_all = Others(LoadedAtCall, args.exp_id)
             /\ get_by_id(args.exp_id) = NoExperiment
        ELSE /\ result.returned = FALSE
             /\ store = store_at_call
             /\ writes = 0
             /\ "_write_all" \notin {trace[i] : i \in 1..Len(trace)}

\* delete has removed the first of two stored experiments.
C26_Witness ==
    /\ pc = "repo_done"
    /\ args.op = "delete"
    /\ Len(store_at_call) = 2
    /\ args.exp_id = store_at_call[1].id
    /\ store = <<store_at_call[2]>>

\* C27, as claimed: repo.save of an experiment whose id is not stored adds no
\* record and does not return as a success does.
C27_UpdateOfMissingId ==
    (/\ pc = "repo_done"
     /\ args.op = "save"
     /\ args.experiment.id \notin IdsAtCall) =>
        /\ store = store_at_call
        /\ result.returned # None

\* The fields of a stored record that a reschedule leaves alone.
FrameOf(d) ==
    [id |-> d.id, name |-> d.name, surfaces |-> d.surfaces, metrics |-> d.metrics,
     status |-> d.status, calendar_event_id |-> d.calendar_event_id,
     created_at |-> d.created_at]

\* C28 (Reschedule frame): when reschedule_experiment returns success, the
\* store has as many records as at the call, the record of the rescheduled
\* experiment differs at most in start_date, duration_days and end_date, and
\* every other record is the same.
C28_RescheduleFrame ==
    (pc = "rs_done" /\ result.success) =>
        /\ Len(store) = Len(store_at_call)
        /\ \A i \in 1..Len(store) :
              IF store_at_call[i].id = args.experiment_id
              THEN FrameOf(store[i]) = FrameOf(store_at_call[i])
              ELSE store[i] = store_at_call[i]

\* A reschedule has moved the first of two stored experiments.
C28_Witness ==
    /\ pc = "rs_done"
    /\ result.success
    /\ Len(store_at_call) = 2
    /\ args.experiment_id = store_at_call[1].id
    /\ store[1].start_date # store_at_call[1].start_date
    /\ store[1].created_at = Earlier

\* ---------------------------------------------------------------------------
\* Store ownership
\* ---------------------------------------------------------------------------

\* reschedule_experiment holds a loaded experiment it has assigned dates to
\* and has not called save.
HoldsUnsavedTrial ==
    /\ InReschedule
    /\ experiment # NoExperiment
    /\ "save" \notin Called

\* C29 (Store ownership): while reschedule_experiment holds the object it got
\* from get_by_id, with the trial dates assigned and save not called, the
\* store queries answer as they did at the call: get_by_id gives the old
\* dates, load_all the old experiments, and get_by_date_range over the trial
\* dates the experiments that had dates in that range at the call.
C29_StoreOwnership ==
    HoldsUnsavedTrial =>
        /\ load_all = LoadedAtCall
        /\ get_by_id(args.experiment_id).start_date = args.old_dates[1]
        /\ get_by_id(args.experiment_id).end_date = args.old_dates[2]
        /\ get_by_date_range(experiment.start_date, experiment.end_date) =
               SelectSeq(LoadedAtCall, LAMBDA exp :
                   /\ StrLE(exp.start_date, experiment.end_date)
                   /\ StrLE(experiment.start_date, exp.end_date))

\* The analyzer has been asked about trial dates that differ from the stored
\* ones, and nothing is saved yet.
C29_Witness ==
    /\ pc = "rs_checked"
    /\ HoldsUnsavedTrial
    /\ experiment.start_date # args.old_dates[1]
    /\ experiment.start_date = args.new_start_date
    /\ get_by_id(args.experiment_id).start_date = args.old_dates[1]

\* ---------------------------------------------------------------------------
\* Read-modify-write sequences
\* ---------------------------------------------------------------------------

\* The ids stored now or when the running operation started.
IdsSeen == IdsAtCall \cup {store[i].id : i \in 1..Len(store)}

Malformed == file_kind \in {"unparseable", "not_iterable"} \/ load_all_raises

\* C31, as claimed: on a malformed data file load_all returns the empty list,
\* and no exception of it reaches get_by_id, get_by_date_range,
\* find_safe_dates or schedule_experiment.
C31_CorruptionDegrades ==
    Malformed =>
        /\ (pc = "repo_done" /\ args.op = "load_all") =>
                ~result.raised /\ result.returned = <<>>
        /\ (pc = "repo_done" /\ args.op \in {"get_by_id", "get_by_date_range"}) =>
                ~result.raised
        /\ (pc = "fsd_done") => "raised" \notin DOMAIN result
        /\ (pc = "se_done" /\ "get_by_date_range" \in Called) =>
                result.message # "error"

\* ---------------------------------------------------------------------------
\* Safe slots and bookings
\* ---------------------------------------------------------------------------

\* find_safe_dates was called without a surface or metric filter.
Unfiltered == ~Truthy(args.surface_id) /\ ~Truthy(args.metric_name)

\* C32, as claimed: when an unfiltered find_safe_dates has returned, an
\* experiment that starts on the first day of a returned slot and lasts the
\* duration asked for overlaps no stored experiment for get_by_date_range, so
\* that schedule_experiment would not ask the analyzer.
C32_SlotIsBookable ==
    (pc = "fsd_done" /\ Unfiltered) =>
        \A i \in 1..Len(result.slots) :
            LET start_date == result.slots[i][1]
                end_date == _calculate_end_date(start_date, args.duration_days)
            IN  get_by_date_range(start_date, end_date) = <<>>

\* C33, as claimed: for every integer duration find_safe_dates_menu passes,
\* a call of find_safe_dates that entered its loop returns. An iteration is a
\* function of the obstacles, the duration and the cursor, so a loop that
\* returns has no iteration that leaves the cursor where it was.
C33_MenuTermination ==
    /\ [][(pc = "fsd_loop" /\ pc' = "fsd_loop") => current_date' # current_date]_vars
    /\ (pc = "fsd_loop") ~> (pc = "fsd_done")

\* ---------------------------------------------------------------------------
\* Earliest fit
\* ---------------------------------------------------------------------------

\* The candidate of the duration asked for that starts on day c overlaps no
\* obstacle of the running find_safe_dates.
FreeStart(c) ==
    \A j \in 1..Len(existing) : ~CandidateOverlaps(c, args.duration_days, existing[j])

\* The day from which the i-th returned slot was looked for: the start of the
\* window, or the day after the slot before.
SoughtFrom(i) ==
    IF i = 1 THEN strptime(args.start_search_date)
    ELSE strptime(result.slots[i - 1][2]) + 1

\* C34 (Earliest fit): each returned slot starts on the earliest day, from the
\* start of the window or from the day after the previous slot, and before
\* search_end, whose candidate overlaps no obstacle; and no jump of the cursor
\* passes over a day whose candidate overlaps no obstacle.
C34_EarliestFit ==
    /\ pc = "fsd_done" =>
          \A i \in 1..Len(result.slots) :
              LET c == strptime(result.slots[i][1])
              IN  /\ SoughtFrom(i) <= c
                  /\ c < strptime(args.end_search_date)
                  /\ FreeStart(c)
                  /\ \A x \in SoughtFrom(i)..(c - 1) : ~FreeStart(x)
    /\ InSweep =>
          \A jp \in jumps : \A x \in jp.from..(jp.to - 1) : ~FreeStart(x)

\* A call returned a second slot that starts where a jump of the cursor
\* landed, more than one day after the first slot.
C34_Witness ==
    /\ pc = "fsd_done"
    /\ Len(result.slots) >= 2
    /\ \E jp \in jumps :
          /\ strptime(result.slots[2][1]) = jp.to
          /\ jp.to > strptime(result.slots[1][2]) + 1

QueryDays == (BaseDay - 1)..(BaseDay + NumDays + MaxStoredDur + 1)

\* get_by_date_range(q, q) returns the stored experiment b.
ReturnedForDay(b, q) ==
    \E k \in 1..Len(get_by_date_range(strftime(q), strftime(q))) :
        get_by_date_range(strftime(q), strftime(q))[k].id = b.id

\* C36, as claimed: a stored booking of N >= 1 days that starts on day s ends
\* on day s + N and is returned by get_by_date_range(q, q) for the N + 1 days
\* q from s to s + N and for no other day; and when schedule_experiment has
\* checked a new experiment that starts on the end date of a stored booking,
\* the analyzer has been asked.
C36_Occupancy ==
    /\ \A i \in 1..Len(load_all) :
          LET b == load_all[i]
          IN  b.duration_days >= 1 =>
                /\ strptime(b.end_date) = strptime(b.start_date) + b.duration_days
                /\ \A q \in QueryDays :
                      ReturnedForDay(b, q) <=>
                          /\ strptime(b.start_date) <= q
                          /\ q <= strptime(b.start_date) + b.duration_days
    /\ (/\ pc = "se_checked"
        /\ \E i \in 1..Len(load_all) :
              /\ load_all[i].duration_days >= 1
              /\ strptime(load_all[i].end_date) = strptime(experiment.start_date)) =>
            llm_calls = 1

\* ---------------------------------------------------------------------------
\* Self-exclusion
\* ---------------------------------------------------------------------------

\* C37 (Self-exclusion): once reschedule_experiment has asked for the
\* conflict analysis, the experiment being moved is not among the experiments
\* the analysis names, and the LLM was called exactly when another experiment
\* is stored; on a store that holds only the experiment being moved, a call
\* with a valid date makes no LLM call and returns success with the new dates
\* saved.
C37_SelfExclusion ==
    /\ (pc \in {"rs_checked", "rs_calendar"} \/ (pc = "rs_done" /\ "load_all" \in Called)) =>
          /\ args.experiment_id \notin conflict_check.problematic_experiments
          /\ (llm_calls = 0) <=> (IdsAtCall = {args.experiment_id})
    /\ (/\ pc = "rs_done"
        /\ IdsAtCall = {args.experiment_id}
        /\ IsDateString(args.new_start_date)) =>
          /\ llm_calls = 0
          /\ result.success
          /\ "save" \in Called
          /\ get_by_id(args.experiment_id).start_date = args.new_start_date
          /\ get_by_id(args.experiment_id).duration_days = args.new_duration_days

\* The only stored experiment was moved onto the dates it already had.
C37_Witness ==
    /\ pc = "rs_done"
    /\ result.success
    /\ IdsAtCall = {args.experiment_id}
    /\ args.new_start_date = args.old_dates[1]
    /\ store = store_at_call
    /\ writes = 1
    /\ llm_calls = 0

\* ---------------------------------------------------------------------------
\* String comparison of dates
\* ---------------------------------------------------------------------------

\* C38, as claimed: for the stored experiments, whose start dates
\* _validate_inputs accepted, and every queried interval of days,
\* get_by_date_range returns the experiments whose calendar interval overlaps
\* the queried one, which are also the ones the test of the sweep takes as
\* overlapping.
C38_StringComparison ==
    \A q1 \in QueryDays : \A q2 \in QueryDays :
        q1 <= q2 =>
            /\ get_by_date_range(strftime(q1), strftime(q2)) =
                   OverlappingByDate(strftime(q1), strftime(q2))
            /\ get_by_date_range(strftime(q1), strftime(q2)) =
                   SelectSeq(load_all, LAMBDA b : SweepOverlap(q1, q2, b))

\* ---------------------------------------------------------------------------
\* Calendar before store
\* ---------------------------------------------------------------------------

\* schedule_experiment called create_calendar_event and got no event id.
EventNotCreated ==
    /\ "create_calendar_event" \in Called
    /\ ~Truthy(experiment.calendar_event_id)

\* C39 (Calendar before store): in schedule_experiment every save comes after
\* a create_calendar_event call; the record it adds to the store has an event
\* id that is not empty; and when the event was not created the call returns
\* failure, with the store as it was and nothing written.
C39_CalendarBeforeStore ==
    InSchedule =>
        /\ \A k \in CallsOf("save") :
              \E j \in CallsOf("create_calendar_event") : j < k
        /\ store # store_at_call =>
              /\ Len(store) = Len(store_at_call) + 1
              /\ Truthy(store[Len(store)].calendar_event_id)
        /\ EventNotCreated =>
              /\ pc = "se_done"
              /\ ~result.success
              /\ store = store_at_call
              /\ writes = 0

\* The event could not be created for an experiment that passed the conflict
\* check against a stored one, and the call returned the error.
C39_Witness ==
    /\ pc = "se_done"
    /\ EventNotCreated
    /\ result.message = "error"
    /\ llm_calls = 1
    /\ Len(store) = 1

====
